---- MODULE Spec2Model ----
(***************************************************************************)
(* A model of kontext-watchdog: watchdog.py (measure_req, generate_params,  *)
(* get_size_diff and the __main__ test loop) and pagesize.py (PageSize,     *)
(* find_elem, _apply_ignores, get_size).                                    *)
(*                                                                         *)
(* Numbers.  Python floats are modelled by exact integers in fixed units:   *)
(*   - a response time limit (seconds in the configuration) is held in      *)
(*     milliseconds, so "limit * 1000" of the code is LimitMs;              *)
(*   - a value of ans['time'] is held in thousandths of a millisecond       *)
(*     (one unit = 0.001 ms), so "x / 1000." of the code is exact;          *)
(*   - a size threshold (a fraction 0..1) is held in permille;              *)
(*   - "%01.1f" of a percentage is held in tenths of a percent.             *)
(* Optional values (Python None) are sets: {} is None, {v} is the value v.  *)
(***************************************************************************)
EXTENDS Integers, Sequences, FiniteSets, TLC

VARIABLES
    m_pc, m_args, m_env, m_ans,     \* one call of measure_req
    g_pc, g_gen, g_rets, g_res,     \* one call of generate_params
    r_pc, r_config, r_i, r_log, r_failed_tests, r_mail, r_gen_raised,
                                    \* the test loop of __main__
    p_pc, p_labels, p_parsed, p_ignores, p_document, p_prev, p_cleared,
    p_size, p_prev_size             \* one PageSize object

mvars == <<m_pc, m_args, m_env, m_ans>>
gvars == <<g_pc, g_gen, g_rets, g_res>>
rvars == <<r_pc, r_config, r_i, r_log, r_failed_tests, r_mail, r_gen_raised>>
pvars == <<p_pc, p_labels, p_parsed, p_ignores, p_document, p_prev, p_cleared,
           p_size, p_prev_size>>
vars == <<mvars, gvars, rvars, pvars>>

None == {}
Some(v) == {v}
Val(x) == CHOOSE v \in x : TRUE

Abs(x) == IF x < 0 THEN -x ELSE x

\* round(num / den) to the nearest integer, ties to even: what "%01.1f" does
\* to the exact value, with num and den already scaled to tenths.
RoundHalfEven(num, den) ==
    LET q == num \div den
        r == num % den
    IN  IF 2 * r < den THEN q
        ELSE IF 2 * r > den THEN q + 1
        ELSE IF q % 2 = 0 THEN q ELSE q + 1

(***************************************************************************)
(* watchdog.py: measure_req                                                *)
(***************************************************************************)

\* One error string of ans['errors'], by the format that built it.
SizeError(changed, threshold) ==
    [kind |-> "size", a |-> changed, b |-> threshold, what |-> ""]
TimeError(perc) == [kind |-> "time", a |-> perc, b |-> 0, what |-> ""]
StatusError(code) == [kind |-> "status", a |-> code, b |-> 0, what |-> ""]
ExcError(e) == [kind |-> "exception", a |-> 0, b |-> 0, what |-> e]

NoAns == [time |-> None, code |-> None, size |-> None, errors |-> <<>>]

\* url.format(**url_params): every placeholder of the url needs a value.
FormatRaises(url, url_params) == ~(url.placeholders \subseteq DOMAIN url_params)

\* A faulty get_size_diff: the deviation relative to the measured size.
get_size_diff_by_current(orig, current) == [num |-> Abs(orig - current), den |-> current]

\* abs(orig - current) / orig as the exact fraction num/den.
get_size_diff(orig, current) == [num |-> Abs(orig - current), den |-> orig]

\* size_diff > resp_size_threshold, the threshold in permille.
SizeDiffExceeds(size_diff, threshold) ==
    size_diff.num * 1000 > threshold * size_diff.den

\* delta.seconds / 1000. + delta.microseconds / 1000., in units of 0.001 ms.
AnsTime(delta) == delta.seconds + delta.microseconds

\* ans['time'] > resp_time_threshold * 1000
TimeExceeds(time, limitMs) == time > limitMs * 1000

\* ans['time'] / float(resp_time_threshold) * 100, printed by %01.1f:
\* (time/1000) / (limitMs/1000) * 100 percent, in tenths of a percent.
TimePerc(time, limitMs) == RoundHalfEven(time * 1000, limitMs)

\* A faulty status test: every code from 400 up.
IsErrorStatus(code) == code \div 100 >= 4

\* int(nf.getcode()) / 100 == 4
IsClientError(code) == code \div 100 = 4

\* A faulty except clause: the error is appended to what was collected so far.
ExceptHandlerKeepsPartial(ans, e) ==
    [ans EXCEPT !.errors = Append(@, ExcError(e))]

\* The except clause: ans is rebuilt from nothing.
ExceptHandler(ans, e) ==
    [time |-> None, code |-> None, size |-> None, errors |-> <<ExcError(e)>>]

\* Lines 96-100: the size check. Returns [ans, exc].
SizeCheck(ans, orig_size, resp_size_threshold) ==
    IF orig_size # None /\ resp_size_threshold # None
    THEN IF Val(orig_size) = 0
         THEN [ans |-> ans, exc |-> "ZeroDivisionError"]
         ELSE LET size_diff == get_size_diff(Val(orig_size), Val(ans.size))
              IN  IF SizeDiffExceeds(size_diff, Val(resp_size_threshold))
                  THEN [ans |-> [ans EXCEPT !.errors = Append(@,
                                   SizeError(RoundHalfEven(size_diff.num * 1000, size_diff.den),
                                             Val(resp_size_threshold)))],
                        exc |-> ""]
                  ELSE [ans |-> ans, exc |-> ""]
    ELSE [ans |-> ans, exc |-> ""]

\* Lines 101-103: the time check.
TimeCheck(ans, limitMs) ==
    IF TimeExceeds(Val(ans.time), limitMs)
    THEN IF limitMs = 0
         THEN [ans |-> ans, exc |-> "ZeroDivisionError"]
         ELSE [ans |-> [ans EXCEPT !.errors = Append(@, TimeError(TimePerc(Val(ans.time), limitMs)))],
               exc |-> ""]
    ELSE [ans |-> ans, exc |-> ""]

\* Lines 104-105: the status check.
StatusCheck(ans) ==
    IF IsClientError(Val(ans.code))
    THEN [ans EXCEPT !.errors = Append(@, StatusError(Val(ans.code)))]
    ELSE ans

\* measure_req. env is what the network and the parser did on this call:
\*   urlopen, read, close: "" or the exception raised there;
\*   delta: [seconds, microseconds] of end - start;
\*   code: nf.getcode(); page_size: {} when pagesize.page_size raised, else {size}.
measure_req(url, url_params, orig_size, resp_size_threshold, resp_time_threshold, env) ==
    IF FormatRaises(url, url_params) THEN ExceptHandler(NoAns, "KeyError")
    ELSE IF env.urlopen # "" THEN ExceptHandler(NoAns, env.urlopen)
    ELSE IF env.read # "" THEN ExceptHandler(NoAns, env.read)
    ELSE IF env.page_size = None THEN ExceptHandler(NoAns, "ParserError")
    ELSE
      LET ans0 == [time |-> Some(AnsTime(env.delta)), code |-> Some(env.code),
                   size |-> env.page_size, errors |-> <<>>]
          s1 == SizeCheck(ans0, orig_size, resp_size_threshold)
      IN  IF s1.exc # "" THEN ExceptHandler(s1.ans, s1.exc)
          ELSE LET s2 == TimeCheck(s1.ans, resp_time_threshold)
               IN  IF s2.exc # "" THEN ExceptHandler(s2.ans, s2.exc)
                   ELSE LET ans3 == StatusCheck(s2.ans)
                        IN  IF env.close # "" THEN ExceptHandler(ans3, env.close)
                            ELSE ans3

(***************************************************************************)
(* watchdog.py: generate_params                                            *)
(*                                                                         *)
(* A string is a sequence of one-character strings. A generator reference  *)
(* "a.b.f" is the sequence of its dot-separated parts <<"a", "b", "f">>.   *)
(***************************************************************************)

\* urllib.quote of one character (safe = '/'): letters, digits and "_.-/"
\* are kept, everything else becomes %XX.
QuoteChar(c) ==
    CASE c = " " -> <<"%", "2", "0">>
      [] c = "&" -> <<"%", "2", "6">>
      [] c = "%" -> <<"%", "2", "5">>
      [] OTHER -> <<c>>

RECURSIVE quote(_)
quote(str) ==
    IF str = <<>> THEN <<>> ELSE QuoteChar(Head(str)) \o quote(Tail(str))

\* '.' in g
HasSeparator(g) == Len(g) > 1

\* g.rsplit('.', 1)
RsplitMod(g) == SubSeq(g, 1, Len(g) - 1)
RsplitFn(g) == g[Len(g)]

\* The modules that can be imported, each with its attributes that are
\* callables; the attributes of the running module itself.
ExternalModules ==
    [m \in {<<"words">>, <<"pkg">>, <<"pkg", "words">>} |->
        IF m = <<"words">> THEN {"generate_phrase"}
        ELSE IF m = <<"pkg", "words">> THEN {"generate_phrase"}
        ELSE {}]
LocalCallables == {"local_phrase"}

\* __import__(mod, fromlist=[]) imports mod and returns its top-level package.
Import(mod) == <<mod[1]>>

\* What resolving g raises: "" when it resolves to a callable.
ResolveRaises(g) ==
    IF HasSeparator(g)
    THEN IF RsplitMod(g) \notin DOMAIN ExternalModules THEN "ImportError"
         ELSE IF RsplitFn(g) \notin ExternalModules[Import(RsplitMod(g))]
              THEN "AttributeError"
              ELSE ""
    ELSE IF g[1] \notin LocalCallables THEN "AttributeError" ELSE ""

\* The value stored for a callable that returned ret.
StoredValue(g, ret) == IF HasSeparator(g) THEN quote(ret) ELSE ret

GenState(output, calls, raised) ==
    [output |-> output, calls |-> calls, raised |-> raised]

\* One callable invocation as the callee sees it.
Call(k, g, nargs) == [param |-> k, ref |-> g, nargs |-> nargs]

\* The body of the for loop for the keys of order, in order; rets[k] is
\* what the callable of k returns on this call, {} when it raises.
RECURSIVE GenLoop(_, _, _, _)
GenLoop(gen, order, rets, st) ==
    IF order = <<>> \/ st.raised # "" THEN st
    ELSE LET k == Head(order)
             g == gen[k]
             failed == ResolveRaises(g)
         IN  IF failed # ""
             THEN GenState(st.output, st.calls, failed)
             ELSE IF rets[k] = None
             THEN GenState(st.output, Append(st.calls, Call(k, g, 0)), "GeneratorError")
             ELSE GenLoop(gen, Tail(order), rets,
                          GenState([x \in DOMAIN st.output \cup {k} |->
                                       IF x = k THEN StoredValue(g, Val(rets[k]))
                                       ELSE st.output[x]],
                                   Append(st.calls, Call(k, g, 0)), ""))

EmptyMap == [k \in {} |-> <<>>]

\* generate_params(gen); gen is {} for None, else {the dictionary};
\* order is the order in which gen.items() yields the keys.
generate_params(gen, order, rets) ==
    IF gen = None THEN GenState(EmptyMap, <<>>, "")
    ELSE GenLoop(Val(gen), order, rets, GenState(EmptyMap, <<>>, ""))

\* The orders in which the keys of a dictionary may be iterated.
Orders(S) ==
    {o \in UNION {[1..n -> S] : n \in {Cardinality(S)}} :
        \A i, j \in DOMAIN o : i # j => o[i] # o[j]}

(***************************************************************************)
(* One call of measure_req on drawn arguments.                             *)
(***************************************************************************)
ParamNames == {"q"}
ParamValues == {"x"}
ParamMaps == UNION {[S -> ParamValues] : S \in SUBSET ParamNames}
Urls == {[placeholders |-> S] : S \in SUBSET ParamNames}
OrigSizes == {None, Some(0), Some(1000)}
SizeThresholds == {None, Some(50), Some(700)}
TimeLimitsMs == {0, 100, 5000}
Deltas == [seconds : {0, 5}, microseconds : {50000, 200000}]
Codes == {200, 399, 400, 404, 499, 500}
PageSizes == {950, 1000, 1060}

MeasureArgs ==
    [url : Urls, url_params : ParamMaps, orig_size : OrigSizes,
     resp_size_threshold : SizeThresholds, resp_time_threshold : TimeLimitsMs]

EnvOf(urlopen, read, delta, code, page_size, close) ==
    [urlopen |-> urlopen, read |-> read, delta |-> delta, code |-> code,
     page_size |-> page_size, close |-> close]

NoDelta == [seconds |-> 0, microseconds |-> 0]

Envs ==
    {EnvOf("URLError", "", NoDelta, 0, None, ""),
     EnvOf("", "timeout", NoDelta, 0, None, "")}
    \cup {EnvOf("", "", d, c, None, "") : d \in Deltas, c \in {200}}
    \cup {EnvOf("", "", d, c, Some(s), cl) :
             d \in Deltas, c \in Codes, s \in PageSizes, cl \in {"", "IOError"}}

MeasureIdle ==
    /\ m_pc = "idle"
    /\ m_args = [url |-> [placeholders |-> {}], url_params |-> [k \in {} |-> "x"],
                 orig_size |-> None, resp_size_threshold |-> None,
                 resp_time_threshold |-> 0]
    /\ m_env = EnvOf("", "", NoDelta, 0, None, "")
    /\ m_ans = NoAns

MeasureInit ==
    /\ m_pc = "call"
    /\ m_args \in MeasureArgs
    /\ m_env = EnvOf("", "", NoDelta, 0, None, "")
    /\ m_ans = NoAns

MeasureReq ==
    /\ m_pc = "call"
    /\ \E env \in Envs :
          /\ m_env' = env
          /\ m_ans' = measure_req(m_args.url, m_args.url_params, m_args.orig_size,
                                  m_args.resp_size_threshold,
                                  m_args.resp_time_threshold, env)
    /\ m_pc' = "done"
    /\ UNCHANGED <<m_args, gvars, rvars, pvars>>

(***************************************************************************)
(* One call of generate_params on a drawn generator specification.         *)
(***************************************************************************)
GenParamNames == {"q", "u"}
Refs ==
    {<<"words", "generate_phrase">>, <<"local_phrase">>, <<"nomodule", "f">>,
     <<"words", "nofn">>, <<"nolocal">>, <<"pkg", "words", "generate_phrase">>}
Alphabet == {"a", " ", "/", "&"}
MaxValueLen == 2
Strings == UNION {[1..n -> Alphabet] : n \in 0..MaxValueLen}
GenSpecs == {None} \cup {Some(f) : f \in UNION {[S -> Refs] : S \in SUBSET GenParamNames}}

GenIdle ==
    /\ g_pc = "idle"
    /\ g_gen = None
    /\ g_rets = EmptyMap
    /\ g_res = GenState(EmptyMap, <<>>, "")

GenInit ==
    /\ g_pc = "call"
    /\ g_gen \in GenSpecs
    /\ g_rets = EmptyMap
    /\ g_res = GenState(EmptyMap, <<>>, "")

GenKeys(gen) == IF gen = None THEN {} ELSE DOMAIN Val(gen)

GenerateParams ==
    /\ g_pc = "call"
    /\ \E order \in Orders(GenKeys(g_gen)) :
       \E rets \in [GenKeys(g_gen) -> {None} \cup {Some(v) : v \in Strings}] :
          /\ g_rets' = rets
          /\ g_res' = generate_params(g_gen, order, rets)
    /\ g_pc' = "done"
    /\ UNCHANGED <<g_gen, mvars, rvars, pvars>>

(***************************************************************************)
(* watchdog.py: the test loop of __main__                                  *)
(***************************************************************************)
MaxTests == 3

PlainTest ==
    [ignore |-> FALSE, generator |-> None, url |-> [placeholders |-> {}],
     size |-> Some(1000), pageSizeThreshold |-> None, responseTimeLimit |-> 5000]

TestKinds ==
    {PlainTest,
     [PlainTest EXCEPT !.ignore = TRUE],
     [PlainTest EXCEPT !.pageSizeThreshold = Some(700)],
     [PlainTest EXCEPT !.url = [placeholders |-> {"q"}]],
     [PlainTest EXCEPT !.url = [placeholders |-> {"q"}],
                       !.generator = Some([k \in {"q"} |-> <<"words", "generate_phrase">>])],
     [PlainTest EXCEPT !.url = [placeholders |-> {"q"}],
                       !.generator = Some([k \in {"q"} |-> <<"nolocal">>])]}

\* A test of the configuration: a kind and its title (its position).
TestOf(kind, title) ==
    [title |-> title, ignore |-> kind.ignore, generator |-> kind.generator,
     url |-> kind.url, size |-> kind.size,
     pageSizeThreshold |-> kind.pageSizeThreshold,
     responseTimeLimit |-> kind.responseTimeLimit]

Configs ==
    {[pageSizeThreshold |-> t,
      tests |-> [i \in 1..Len(kinds) |-> TestOf(kinds[i], i)]] :
        t \in {None, Some(50)},
        kinds \in UNION {[1..n -> TestKinds] : n \in 1..MaxTests}}

FastDelta == [seconds |-> 0, microseconds |-> 50000]
RunEnvs ==
    {EnvOf("URLError", "", NoDelta, 0, None, ""),
     EnvOf("", "", FastDelta, 200, Some(1000), ""),
     EnvOf("", "", FastDelta, 404, Some(1000), ""),
     EnvOf("", "", FastDelta, 200, Some(1060), "")}
RunStrings == {<<"a">>}

\* result = {'errors': [], 'title': test['title']}
NewResult(title) ==
    [title |-> title, omitted |-> FALSE, time |-> None, code |-> None,
     size |-> None, errors |-> <<>>]

\* result.update(ans)
Update(result, ans) ==
    [result EXCEPT !.time = ans.time, !.code = ans.code, !.size = ans.size,
                   !.errors = ans.errors]

\* test.get('pageSizeThreshold'), else config.get('pageSizeThreshold')
PageSizeThreshold(config, test) ==
    IF test.pageSizeThreshold = None THEN config.pageSizeThreshold
    ELSE test.pageSizeThreshold

\* log.error(...) when the result has errors, else log.info(...)
LogEntry(result) ==
    [level |-> IF Len(result.errors) > 0 THEN "error" ELSE "info", result |-> result]

RunIdle ==
    /\ r_pc = "idle"
    /\ r_config = [pageSizeThreshold |-> None, tests |-> <<>>]
    /\ r_i = 0
    /\ r_log = <<>>
    /\ r_failed_tests = <<>>
    /\ r_mail = <<>>
    /\ r_gen_raised = {}

RunInit ==
    /\ r_pc = "loop"
    /\ r_config \in Configs
    /\ r_i = 1
    /\ r_log = <<>>
    /\ r_failed_tests = <<>>
    /\ r_mail = <<>>
    /\ r_gen_raised = {}

\* The loop body for config['tests'][r_i], once result is known.
Record(result) ==
    /\ r_log' = Append(r_log, LogEntry(result))
    /\ r_failed_tests' = IF Len(result.errors) > 0
                          THEN Append(r_failed_tests, result)
                          ELSE r_failed_tests
    /\ r_i' = r_i + 1
    /\ UNCHANGED <<r_pc, r_gen_raised>>

\* One iteration of "for test in config['tests']". An exception raised by
\* generate_params is caught nowhere: it ends the process.
RunTest ==
    /\ r_pc = "loop"
    /\ r_i <= Len(r_config.tests)
    /\ LET test == r_config.tests[r_i]
       IN  IF test.ignore
           THEN Record([NewResult(test.title) EXCEPT !.omitted = TRUE])
           ELSE \E order \in Orders(GenKeys(test.generator)) :
                \E rets \in [GenKeys(test.generator) ->
                                {None} \cup {Some(v) : v \in RunStrings}] :
                \E env \in RunEnvs :
                   LET gp == generate_params(test.generator, order, rets)
                   IN  IF gp.raised # ""
                       THEN /\ r_pc' = "crashed"
                            /\ r_gen_raised' = r_gen_raised \cup {r_i}
                            /\ UNCHANGED <<r_i, r_log, r_failed_tests>>
                       ELSE Record(Update(NewResult(test.title),
                                measure_req(test.url, gp.output, test.size,
                                            PageSizeThreshold(r_config, test),
                                            test.responseTimeLimit, env)))
    /\ UNCHANGED <<r_config, r_mail, mvars, gvars, pvars>>

\* After the loop: send_email when failed_tests is not empty.
Finish ==
    /\ r_pc = "loop"
    /\ r_i > Len(r_config.tests)
    /\ r_mail' = IF Len(r_failed_tests) > 0
                 THEN Append(r_mail, r_failed_tests)
                 ELSE r_mail
    /\ r_pc' = "done"
    /\ UNCHANGED <<r_config, r_i, r_log, r_failed_tests, r_gen_raised, mvars, gvars, pvars>>

(***************************************************************************)
(* pagesize.py: PageSize                                                   *)
(*                                                                         *)
(* A document is a tree of tags 1..NumNodes with node 1 the html element.  *)
(* p_labels gives each tag its name and attributes, which nothing changes; *)
(* a document value holds what clear() changes: kids[n], the child tags of *)
(* n in document order, and text[n], the characters of n's own text.       *)
(***************************************************************************)
NumNodes == 3
MaxPathLen == 2
MaxRules == 2

Root == 1
Nodes == 1..NumNodes

NoAttrs == [a \in {} |-> ""]
HtmlLabel == [name |-> "html", attrs |-> NoAttrs]
Labels ==
    {[name |-> "div", attrs |-> NoAttrs],
     [name |-> "span", attrs |-> [a \in {"class"} |-> "foo"]]}

RECURSIVE SeqOfSet(_)
\* The elements of a set of numbers in increasing order.
SeqOfSet(S) ==
    IF S = {} THEN <<>>
    ELSE LET x == CHOOSE y \in S : \A z \in S : y <= z
         IN  <<x>> \o SeqOfSet(S \ {x})

\* BeautifulSoup(html_code): the tree whose node n > 1 has parent par[n].
DocOf(par) ==
    [kids |-> [n \in Nodes |-> SeqOfSet({c \in Nodes \ {Root} : par[c] = n})],
     text |-> [n \in Nodes |-> <<"x">>]]

\* The parsed documents: every ordered tree, its nodes numbered breadth first.
ParentMaps ==
    {par \in [Nodes \ {Root} -> Nodes] :
        /\ \A n \in Nodes \ {Root} : par[n] < n
        /\ \A n \in Nodes \ {Root, NumNodes} : par[n] <= par[n + 1]}

RECURSIVE DescSeq(_, _)
\* The tags below the tags of seq, seq included, in document order.
DescSeq(doc, seq) ==
    IF seq = <<>> THEN <<>>
    ELSE <<Head(seq)>> \o DescSeq(doc, doc.kids[Head(seq)]) \o DescSeq(doc, Tail(seq))

\* node.descendants
Descendants(doc, node) == DescSeq(doc, doc.kids[node])

\* Whether a tag is matched by find_all(name, attrs).
MatchesTag(label, name, attrs) ==
    /\ (name = None \/ label.name = Val(name))
    /\ \A a \in DOMAIN attrs :
          a \in DOMAIN label.attrs /\ label.attrs[a] = attrs[a]

\* node.find_all(name, attrs)
find_all(labels, doc, node, name, attrs) ==
    SelectSeq(Descendants(doc, node), LAMBDA n : MatchesTag(labels[n], name, attrs))

RECURSIVE FindAllOver(_, _, _, _)
\* to_srch_new after "for node in to_srch: to_srch_new.extend(...)".
FindAllOver(labels, doc, to_srch, item) ==
    IF to_srch = <<>> THEN <<>>
    ELSE find_all(labels, doc, Head(to_srch), item[1], item[2])
         \o FindAllOver(labels, doc, Tail(to_srch), item)

\* A faulty end of find_elem: the candidates are returned whether or not
\* every step was resolved.
FindResultUnchecked(to_srch, i, n) == to_srch

\* "if i == len(query_items): return to_srch else: return []"
FindResult(to_srch, i, n) == IF i = n THEN to_srch ELSE <<>>

RECURSIVE FindLoop(_, _, _, _, _)
\* The while loop of find_elem from step i (counted from 0) on.
FindLoop(labels, doc, query_items, to_srch, i) ==
    IF i < Len(query_items)
    THEN LET to_srch_new == FindAllOver(labels, doc, to_srch, query_items[i + 1])
         IN  IF Len(to_srch_new) = 0
             THEN FindResult(to_srch, i, Len(query_items))
             ELSE FindLoop(labels, doc, query_items, to_srch_new, i + 1)
    ELSE FindResult(to_srch, i, Len(query_items))

\* PageSize.find_elem(query)
find_elem(labels, doc, query) == FindLoop(labels, doc, query, <<Root>>, 0)

\* A faulty clear(): only the first child of the tag is removed.
clear_first_child(doc, elm) ==
    IF doc.text[elm] # <<>> THEN [doc EXCEPT !.text[elm] = <<>>]
    ELSE IF doc.kids[elm] # <<>> THEN [doc EXCEPT !.kids[elm] = Tail(@)]
    ELSE doc

\* elm.clear(): the tag loses its text and its children and stays in place.
clear(doc, elm) == [doc EXCEPT !.kids[elm] = <<>>, !.text[elm] = <<>>]

RECURSIVE ClearAll(_, _)
\* "for elm in elms: elm.clear()"
ClearAll(doc, elms) ==
    IF elms = <<>> THEN doc ELSE ClearAll(clear(doc, Head(elms)), Tail(elms))

Range(seq) == {seq[i] : i \in DOMAIN seq}

RECURSIVE apply_ignores(_, _, _, _)
\* PageSize._apply_ignores from the rule ignores[1] on; cleared collects the
\* tags handed to clear().
apply_ignores(labels, doc, ignores, cleared) ==
    IF ignores = <<>> THEN [document |-> doc, cleared |-> cleared]
    ELSE LET elms == find_elem(labels, doc, Head(ignores))
         IN  apply_ignores(labels, ClearAll(doc, elms), Tail(ignores),
                           cleared \cup Range(elms))

\* The characters of a tag name or attribute.
NameChars(name) ==
    CASE name = "html" -> <<"h", "t", "m", "l">>
      [] name = "div" -> <<"d", "i", "v">>
      [] name = "span" -> <<"s", "p", "a", "n">>
AttrChars(attrs) ==
    IF "class" \in DOMAIN attrs
    THEN <<" ", "c", "l", "a", "s", "s", "=", "\"", "f", "o", "o", "\"">>
    ELSE <<>>

RECURSIVE SerializeSeq(_, _, _)
\* str() of the tags of seq, one after the other.
SerializeSeq(labels, doc, seq) ==
    IF seq = <<>> THEN <<>>
    ELSE LET n == Head(seq)
         IN  <<"<">> \o NameChars(labels[n].name) \o AttrChars(labels[n].attrs) \o <<">">>
             \o doc.text[n] \o SerializeSeq(labels, doc, doc.kids[n])
             \o <<"<", "/">> \o NameChars(labels[n].name) \o <<">">>
             \o SerializeSeq(labels, doc, Tail(seq))

\* PageSize.get_size(): len(str(self._document))
get_size(labels, doc) == Len(SerializeSeq(labels, doc, <<Root>>))

\* page_size: one dictionary of pageSizeIgnore becomes (elm_name, args).
QueryItem(ignore_part) ==
    <<IF "name" \in DOMAIN ignore_part THEN Some(ignore_part["name"]) ELSE None,
      [a \in DOMAIN ignore_part \cap {"class", "id"} |-> ignore_part[a]]>>

\* page_size: conf_ignore becomes the list of Query objects.
Queries(conf_ignore) ==
    [r \in DOMAIN conf_ignore |->
        [k \in DOMAIN conf_ignore[r] |-> QueryItem(conf_ignore[r][k])]]

IgnoreParts == {[a \in {"name"} |-> "div"], [a \in {"class"} |-> "foo"]}
IgnoreRules == UNION {[1..n -> IgnoreParts] : n \in 1..MaxPathLen}
ConfIgnores == UNION {[1..n -> IgnoreRules] : n \in 0..MaxRules}

EmptyDoc == [kids |-> [n \in {} |-> <<>>], text |-> [n \in {} |-> <<>>]]

PageIdle ==
    /\ p_pc = "idle"
    /\ p_labels = <<>>
    /\ p_parsed = EmptyDoc
    /\ p_ignores = <<>>
    /\ p_document = EmptyDoc
    /\ p_prev = EmptyDoc
    /\ p_cleared = {}
    /\ p_size = 0
    /\ p_prev_size = 0

\* page_size(html_code, conf_ignore) up to the parsed document and the queries.
PageInit ==
    /\ p_pc = "parsed"
    /\ p_labels \in {[n \in Nodes |-> IF n = Root THEN HtmlLabel ELSE l[n]] :
                       l \in [Nodes \ {Root} -> Labels]}
    /\ p_parsed \in {DocOf(par) : par \in ParentMaps}
    /\ p_ignores \in {Queries(c) : c \in ConfIgnores}
    /\ p_document = p_parsed
    /\ p_prev = p_parsed
    /\ p_cleared = {}
    /\ p_size = 0
    /\ p_prev_size = 0

\* pd = PageSize(soup, ignores=ignores); return pd.get_size()
PageSizeCall ==
    /\ p_pc = "parsed"
    /\ LET r == apply_ignores(p_labels, p_document, p_ignores, {})
       IN  /\ p_document' = r.document
           /\ p_cleared' = r.cleared
           /\ p_size' = get_size(p_labels, r.document)
    /\ p_prev' = p_document
    /\ p_prev_size' = p_size
    /\ p_pc' = "filtered"
    /\ UNCHANGED <<p_labels, p_parsed, p_ignores, mvars, gvars, rvars>>

\* _apply_ignores() and get_size() once more on the same object.
ApplyIgnoresAgain ==
    /\ p_pc = "filtered"
    /\ LET r == apply_ignores(p_labels, p_document, p_ignores, {})
       IN  /\ p_document' = r.document
           /\ p_size' = get_size(p_labels, r.document)
    /\ p_prev' = p_document
    /\ p_prev_size' = p_size
    /\ p_pc' = "refiltered"
    /\ UNCHANGED <<p_labels, p_parsed, p_ignores, p_cleared, mvars, gvars, rvars>>

(***************************************************************************)
(* The specifications: the program run, and one call of each function.     *)
(***************************************************************************)
Init == RunInit /\ MeasureIdle /\ GenIdle /\ PageIdle
Next == RunTest \/ Finish
Spec == Init /\ [][Next]_vars

InitMeasureReq == MeasureInit /\ GenIdle /\ RunIdle /\ PageIdle
SpecMeasureReq == InitMeasureReq /\ [][MeasureReq]_vars

InitGenerateParams == GenInit /\ MeasureIdle /\ RunIdle /\ PageIdle
SpecGenerateParams == InitGenerateParams /\ [][GenerateParams]_vars

InitPageSize == PageInit /\ MeasureIdle /\ GenIdle /\ RunIdle
NextPageSize == PageSizeCall \/ ApplyIgnoresAgain
SpecPageSize == InitPageSize /\ [][NextPageSize]_vars

(***************************************************************************)
(* Properties of measure_req                                               *)
(***************************************************************************)

\* The call of measure_req has returned.
MeasureDone == m_pc = "done"

\* Some statement inside the try block raised on this call.
StepRaised ==
    \/ ~(m_args.url.placeholders \subseteq DOMAIN m_args.url_params)
    \/ m_env.urlopen # ""
    \/ m_env.read # ""
    \/ m_env.page_size = None
    \/ (m_args.orig_size # None /\ m_args.resp_size_threshold # None
          /\ Val(m_args.orig_size) = 0)
    \/ (m_args.resp_time_threshold = 0
          /\ m_env.delta.seconds + m_env.delta.microseconds > 0)
    \/ m_env.close # ""

\* The response arrived and every statement of the try block completed.
Evaluated == MeasureDone /\ ~StepRaised

ErrorsOfKind(k) == SelectSeq(m_ans.errors, LAMBDA e : e.kind = k)

\* The wall-clock time of the fetch in units of 0.001 ms.
ElapsedUnits == m_env.delta.seconds * 1000000 + m_env.delta.microseconds

\* C1: whenever a step of measure_req raises, the result has time, code and
\* size null and exactly one error, the exception; nothing collected before
\* the exception is left in it. A missing placeholder value is one such case.
C1_FailureIsSingleError ==
    (MeasureDone /\ StepRaised) =>
        /\ m_ans.time = None
        /\ m_ans.code = None
        /\ m_ans.size = None
        /\ Len(m_ans.errors) = 1
        /\ m_ans.errors[1].kind = "exception"
        /\ (~(m_args.url.placeholders \subseteq DOMAIN m_args.url_params)
              => m_ans.errors = <<ExcError("KeyError")>>)

\* A 404 response larger than tolerated whose close() raised: two errors were
\* collected before the exception, and the result holds the exception alone.
C1_Witness ==
    /\ MeasureDone
    /\ m_env.close = "IOError"
    /\ m_env.code = 404
    /\ m_args.orig_size = Some(1000)
    /\ m_args.resp_size_threshold = Some(50)
    /\ m_env.page_size = Some(1060)
    /\ m_args.resp_time_threshold = 5000
    /\ m_ans.errors = <<ExcError("IOError")>>
    /\ m_ans.code = None

\* C3: for a received response a time error is present exactly when the
\* elapsed wall-clock time in milliseconds exceeds timeThreshold * 1000, and
\* the 'time' field is the elapsed time in milliseconds.
C3_TimeErrorIffElapsedExceeds ==
    Evaluated =>
        /\ (Len(ErrorsOfKind("time")) = 1)
              <=> (ElapsedUnits > m_args.resp_time_threshold * 1000)
        /\ Len(ErrorsOfKind("time")) <= 1
        /\ m_ans.time = Some(ElapsedUnits)

\* C4: whenever a time error is appended, the percentage it reports is
\* elapsed / limit * 100 with both in milliseconds (5200 ms against 5.0 s is
\* 104.0%).
C4_TimePercentSameUnit ==
    Evaluated =>
        \A i \in 1..Len(m_ans.errors) :
            m_ans.errors[i].kind = "time" =>
                m_ans.errors[i].a =
                    RoundHalfEven(ElapsedUnits, m_args.resp_time_threshold)

\* C5: for a received response exactly one size error is appended when
\* expectedSize and sizeThreshold are both given and
\* abs(expectedSize - measuredSize) / expectedSize > sizeThreshold, and none
\* otherwise; a missing expectedSize or sizeThreshold causes no error at all.
C5_SizeErrorIff ==
    Evaluated =>
        LET both == m_args.orig_size # None /\ m_args.resp_size_threshold # None
            n == Len(ErrorsOfKind("size"))
        IN  /\ m_ans.size = m_env.page_size
            /\ Len(ErrorsOfKind("exception")) = 0
            /\ IF both /\ Abs(Val(m_args.orig_size) - Val(m_env.page_size)) * 1000
                            > Val(m_args.resp_size_threshold) * Val(m_args.orig_size)
               THEN n = 1
               ELSE n = 0

\* expectedSize=1000, threshold=0.05, measuredSize=1060: one size error, 6.0%.
C5_Witness ==
    /\ Evaluated
    /\ m_args.orig_size = Some(1000)
    /\ m_args.resp_size_threshold = Some(50)
    /\ m_env.page_size = Some(1060)
    /\ ErrorsOfKind("size") = <<SizeError(60, 50)>>

C10_EveryValueIsQuoted ==
    (g_pc = "done" /\ g_res.raised = "") =>
        \A k \in GenKeys(g_gen) :
            /\ k \in DOMAIN g_res.output
            /\ g_res.output[k] = quote(Val(g_rets[k]))
            /\ Len(SelectSeq(g_res.calls, LAMBDA c : c.param = k)) = 1
            /\ \A i \in 1..Len(g_res.calls) : g_res.calls[i].nargs = 0

(***************************************************************************)
(* Properties of the test loop                                             *)
(***************************************************************************)

\* The process has ended: the script ran to its end, or an exception that
\* nothing caught ended it.
RunEnded == r_pc \in {"done", "crashed"}

\* C2: a failure of one test's parameter generator is caught for that test,
\* gives that test's result a single error, and does not abort the run:
\* every test of the configuration is evaluated and logged and the
\* aggregation and mail step are reached.
C2_GeneratorFailureIsContained ==
    RunEnded =>
        /\ r_pc = "done"
        /\ Len(r_log) = Len(r_config.tests)
        /\ \A j \in r_gen_raised :
              /\ j <= Len(r_log)
              /\ r_log[j].result.title = j
              /\ Len(r_log[j].result.errors) = 1

\* C7: when the run ends, failed_tests holds, in configuration order, exactly
\* the tests whose result has an error (no ignored test is probed or listed),
\* and mail is dispatched exactly when failed_tests is not empty.
C7_FailedListAndMail ==
    RunEnded =>
        /\ r_failed_tests =
              [i \in 1..Len(SelectSeq(r_log, LAMBDA e : Len(e.result.errors) > 0)) |->
                  SelectSeq(r_log, LAMBDA e : Len(e.result.errors) > 0)[i].result]
        /\ \A j \in 1..Len(r_log) :
              r_config.tests[j].ignore =>
                  /\ r_log[j].result.omitted
                  /\ r_log[j].result.code = None
                  /\ r_log[j].result.errors = <<>>
        /\ (Len(r_mail) = 1) <=> (Len(r_failed_tests) > 0)
        /\ Len(r_mail) <= 1
        /\ \A i \in 1..Len(r_mail) : r_mail[i] = r_failed_tests

\* The same statement for the runs that reach the end of the script.
RunCompletedFailedListAndMail == r_pc = "crashed" \/ C7_FailedListAndMail

(***************************************************************************)
(* Properties of PageSize                                                  *)
(***************************************************************************)

\* The ignore rules have been applied at least once.
Filtered == p_pc \in {"filtered", "refiltered"}

RECURSIVE AncestorsIn(_, _)
\* The proper ancestors of tag n in doc (n attached to the tree of doc).
AncestorsIn(doc, n) ==
    IF n = Root THEN {}
    ELSE LET p == CHOOSE q \in Nodes : n \in Range(doc.kids[q])
         IN  {p} \cup AncestorsIn(doc, p)

RECURSIVE StepSet(_, _)
\* The tags of the parsed document that step k of a rule selects: those that
\* match pattern k below a tag selected by step k - 1; step 0 is the root.
StepSet(rule, k) ==
    IF k = 0 THEN {Root}
    ELSE {n \in Nodes \ {Root} :
            /\ MatchesTag(p_labels[n], rule[k][1], rule[k][2])
            /\ AncestorsIn(p_parsed, n) \cap StepSet(rule, k - 1) # {}}

\* Some step of the rule matches nothing in the parsed document.
PathFails(rule) == \E k \in 1..Len(rule) : StepSet(rule, k) = {}

\* Tag n is still part of the document.
Present(doc, n) == n = Root \/ n \in Range(Descendants(doc, Root))

\* C8: a rule one of whose steps matches nothing clears nothing, also not the
\* tags its earlier steps matched: the document and its size are as without
\* the rule (as parsed, when no rule of the set resolves).
C8_UnresolvedRuleClearsNothing ==
    Filtered =>
        LET resolved == SelectSeq(p_ignores, LAMBDA rule : ~PathFails(rule))
            without == apply_ignores(p_labels, p_parsed, resolved, {})
        IN  /\ p_document = without.document
            /\ p_cleared = without.cleared
            /\ p_size = get_size(p_labels, without.document)
            /\ resolved = <<>> =>
                  /\ p_document = p_parsed
                  /\ p_cleared = {}
                  /\ p_size = get_size(p_labels, p_parsed)

\* One rule of two steps, the first of which matches a tag and the second
\* nothing: the document is as parsed.
C8_Witness ==
    /\ Filtered
    /\ Len(p_ignores) = 1
    /\ Len(p_ignores[1]) = 2
    /\ StepSet(p_ignores[1], 1) # {}
    /\ StepSet(p_ignores[1], 2) = {}
    /\ p_document = p_parsed
    /\ p_size = get_size(p_labels, p_parsed)

\* C9 as stated: a second application of the same rules changes no tag and
\* not the size, and every matched tag is still in the document after each
\* application.
C9_IdempotentAllMatchedPresent ==
    /\ p_pc = "refiltered" => (p_document = p_prev /\ p_size = p_prev_size)
    /\ Filtered => \A n \in p_cleared : Present(p_document, n)

\* C9 amended: a second application of the same rules changes no tag and not
\* the size; after each application every matched tag that is not inside
\* another matched tag is still in the document, without content.
C9_IdempotentOutermostPresent ==
    /\ p_pc = "refiltered" => (p_document = p_prev /\ p_size = p_prev_size)
    /\ Filtered =>
          \A n \in p_cleared :
              AncestorsIn(p_parsed, n) \cap p_cleared = {} =>
                  /\ Present(p_document, n)
                  /\ p_document.kids[n] = <<>>
                  /\ p_document.text[n] = <<>>

\* A matched tag inside another matched tag, cleared, and the rules applied
\* a second time without effect.
C9_Witness ==
    /\ p_pc = "refiltered"
    /\ \E n, a \in p_cleared : a \in AncestorsIn(p_parsed, n)
    /\ p_document = p_prev
    /\ p_document # p_parsed
    /\ p_size = p_prev_size

====
